---- MODULE Spec2Model ----
(***************************************************************************)
(* Cricket auction allocation engine: season configuration, team and       *)
(* player registration, icon assignment, and the auction state machine     *)
(* (start_auction, bid_on_player, fast_assign_players,                     *)
(* start_next_auction_round) with the budget validator and purchase        *)
(* ledger.  Amounts are integers (units of the smallest currency step).    *)
(***************************************************************************)
EXTENDS Integers, Sequences, FiniteSets, TLC

(* ------------------------------ bounds --------------------------------- *)
MaxBudget == 4
MaxRound == 2
MaxProbe == 5

(* icon_player_id is nullable: no icon player *)
NoPlayer == 0

(* team names and player mobiles, identified with the ids of their rows *)
TeamIds == {1, 2}
PlayerIds == {1, 2}

(* AuctionStatus enum *)
PENDING == "pending"
SOLD == "sold"
UNSOLD == "unsold"
ICON_PLAYER == "icon_player"
OWNER == "owner"
AuctionStatus == {PENDING, SOLD, UNSOLD, ICON_PLAYER, OWNER}

(* AuctionMode enum *)
AuctionMode == {"random", "manual", "fast_assign"}

(* ---------------------------- request inputs --------------------------- *)
(* AuctionConfigCreate: <<base_price, max_players_per_team,               *)
(* total_budget_per_team>>, all accepted by its field validators          *)
Configs == {<<1, 3, MaxBudget>>, <<2, 1, MaxBudget - 1>>}
(* PlayerBid.bid_amount: the field validator refuses negative amounts *)
BidAmounts == {0, 1, 2, MaxBudget}
(* FastAssignment.price: any Decimal, no field validator *)
Prices == {-1, 1, 2}
Selections == {PlayerIds}
Modes == {"manual"}
BatchLens == {1, 2}
SeqsOver(S) == UNION {[1..n -> S] : n \in BatchLens}

VARIABLES season, team_seasons, player_seasons, purchases, ret, probe

db == <<season, team_seasons, player_seasons, purchases>>
vars == <<season, team_seasons, player_seasons, purchases, ret, probe>>

(* ---------------------------- responses -------------------------------- *)
Ok(op) == [op |-> op, err |-> "none", n |-> 0]
OkN(op, n) == [op |-> op, err |-> "none", n |-> n]
Err(op, e) == [op |-> op, err |-> e, n |-> 0]

(* ------------------------ Budget Validator ----------------------------- *)
validate_team_budget_GE(team_season, bid_amount, base_price) ==
    IF team_season.current_players > team_season.max_players
    THEN [can_bid |-> FALSE, max_bid_amount |-> 0, reason |-> "player_limit"]
    ELSE IF bid_amount > team_season.remaining_budget
    THEN [can_bid |-> FALSE, max_bid_amount |-> 0, reason |-> "insufficient_budget"]
    ELSE LET remaining_players_needed ==
                 team_season.max_players - team_season.current_players - 1
             min_budget_for_remaining == remaining_players_needed * base_price
             max_bid_amount == team_season.remaining_budget - min_budget_for_remaining
         IN  IF max_bid_amount < base_price
             THEN [can_bid |-> FALSE, max_bid_amount |-> 0, reason |-> "reserve"]
             ELSE IF bid_amount > max_bid_amount
             THEN [can_bid |-> FALSE, max_bid_amount |-> max_bid_amount,
                   reason |-> "max_bid"]
             ELSE [can_bid |-> TRUE, max_bid_amount |-> max_bid_amount,
                   reason |-> "none"]

validate_team_budget_NoReserve(team_season, bid_amount, base_price) ==
    IF team_season.current_players >= team_season.max_players
    THEN [can_bid |-> FALSE, max_bid_amount |-> 0, reason |-> "player_limit"]
    ELSE IF bid_amount > team_season.remaining_budget
    THEN [can_bid |-> FALSE, max_bid_amount |-> 0, reason |-> "insufficient_budget"]
    ELSE [can_bid |-> TRUE, max_bid_amount |-> team_season.remaining_budget,
          reason |-> "none"]

validate_team_budget(team_season, bid_amount, base_price) ==
    IF team_season.current_players >= team_season.max_players
    THEN [can_bid |-> FALSE, max_bid_amount |-> 0, reason |-> "player_limit"]
    ELSE IF bid_amount > team_season.remaining_budget
    THEN [can_bid |-> FALSE, max_bid_amount |-> 0, reason |-> "insufficient_budget"]
    ELSE LET remaining_players_needed ==
                 team_season.max_players - team_season.current_players - 1
             min_budget_for_remaining == remaining_players_needed * base_price
             max_bid_amount == team_season.remaining_budget - min_budget_for_remaining
         IN  IF max_bid_amount < base_price
             THEN [can_bid |-> FALSE, max_bid_amount |-> 0, reason |-> "reserve"]
             ELSE IF bid_amount > max_bid_amount
             THEN [can_bid |-> FALSE, max_bid_amount |-> max_bid_amount,
                   reason |-> "max_bid"]
             ELSE [can_bid |-> TRUE, max_bid_amount |-> max_bid_amount,
                   reason |-> "none"]

(* ------------------------- Purchase Ledger ----------------------------- *)
(* The row written by create_player_purchase. *)
PlayerPurchase(team_id, player_id, purchase_price, is_icon_player) ==
    [team_id |-> team_id, player_id |-> player_id,
     purchase_price |-> purchase_price, is_icon_player |-> is_icon_player]

create_player_purchase_NoDebit(team_season, purchase_price) ==
    [team_season EXCEPT !.current_players = @ + 1]

(* The team row after create_player_purchase. *)
create_player_purchase(team_season, purchase_price) ==
    [team_season EXCEPT !.remaining_budget = @ - purchase_price,
                        !.current_players = @ + 1]

unique_player_purchase_Unchecked(rows, team_id, player_id) == TRUE

(* UniqueConstraint('team_season_id', 'player_id'): the insert is refused. *)
unique_player_purchase(rows, team_id, player_id) ==
    \A r \in rows : ~(r.team_id = team_id /\ r.player_id = player_id)

(* ------------------------------- Init ---------------------------------- *)
NoProbe == [kind |-> "none"]

InitDb ==
    /\ season = [base_price |-> 0, max_players_per_team |-> 0,
                 total_budget_per_team |-> 0, auction_configured |-> FALSE,
                 auction_started |-> FALSE, auction_mode |-> "random",
                 current_auction_round |-> 1, registration_open |-> TRUE]
    /\ team_seasons = <<>>
    /\ player_seasons = <<>>
    /\ purchases = {}
    /\ ret = Ok("init")

Init == InitDb /\ probe = NoProbe

(* --------------------- TeamService.configure_auction ------------------- *)
configure_auction_NoStartedCheck ==
    /\ probe' = probe
    /\ IF FALSE
       THEN ret' = Err("configure_auction", "already_started") /\ UNCHANGED db
       ELSE \E config_data \in Configs :
              /\ season' = [season EXCEPT
                              !.base_price = config_data[1],
                              !.max_players_per_team = config_data[2],
                              !.total_budget_per_team = config_data[3],
                              !.auction_configured = TRUE]
              /\ ret' = Ok("configure_auction")
              /\ UNCHANGED <<team_seasons, player_seasons, purchases>>

configure_auction ==
    /\ probe' = probe
    /\ IF season.auction_started
       THEN ret' = Err("configure_auction", "already_started") /\ UNCHANGED db
       ELSE \E config_data \in Configs :
              /\ season' = [season EXCEPT
                              !.base_price = config_data[1],
                              !.max_players_per_team = config_data[2],
                              !.total_budget_per_team = config_data[3],
                              !.auction_configured = TRUE]
              /\ ret' = Ok("configure_auction")
              /\ UNCHANGED <<team_seasons, player_seasons, purchases>>

(* ----------------- TeamService.register_teams_for_season --------------- *)
NewTeamSeason ==
    [total_budget |-> season.total_budget_per_team,
     remaining_budget |-> season.total_budget_per_team,
     max_players |-> season.max_players_per_team,
     current_players |-> 0,
     icon_player_id |-> NoPlayer]

(* the loop over team_data.teams: rows added so far, or the error raised *)
RECURSIVE register_loop(_, _, _)
register_loop(teams, i, rows) ==
    IF i > Len(teams) THEN [err |-> "none", rows |-> rows]
    ELSE IF teams[i] \in DOMAIN rows
    THEN [err |-> "already_registered", rows |-> rows]
    ELSE register_loop(teams, i + 1, rows @@ (teams[i] :> NewTeamSeason))

(* a name is the name of a registered team, or new: its row then takes    *)
(* the next id of the autoincrement key                                   *)
names_numbered(teams) ==
    \A i \in 1..Len(teams) :
       LET known == DOMAIN team_seasons \cup {teams[j] : j \in 1..(i - 1)}
       IN  teams[i] \in known \/ teams[i] = Cardinality(known) + 1

register_teams_for_season ==
    /\ probe' = probe
    /\ IF ~season.auction_configured
       THEN ret' = Err("register_teams", "not_configured") /\ UNCHANGED db
       ELSE IF season.auction_started
       THEN ret' = Err("register_teams", "already_started") /\ UNCHANGED db
       ELSE \E teams \in SeqsOver(TeamIds) :
              /\ names_numbered(teams)
              /\ \E r \in {register_loop(teams, 1, team_seasons)} :
                     IF r.err # "none"
                     THEN ret' = Err("register_teams", r.err) /\ UNCHANGED db
                     ELSE /\ team_seasons' = r.rows
                          /\ ret' = Ok("register_teams")
                          /\ UNCHANGED <<season, player_seasons, purchases>>

(* --------------------- PlayerService.register_player ------------------- *)
NewPlayerSeason ==
    [is_selected_for_auction |-> FALSE, auction_status |-> PENDING,
     auction_round |-> 1]

(* a new row takes the next id of the autoincrement key *)
register_player(p) ==
    /\ p \in DOMAIN player_seasons \/ p = Cardinality(DOMAIN player_seasons) + 1
    /\ probe' = probe
    /\ IF ~season.registration_open
       THEN ret' = Err("register_player", "registration_closed") /\ UNCHANGED db
       ELSE IF p \in DOMAIN player_seasons
       THEN ret' = Err("register_player", "already_registered") /\ UNCHANGED db
       ELSE /\ player_seasons' = player_seasons @@ (p :> NewPlayerSeason)
            /\ ret' = Ok("register_player")
            /\ UNCHANGED <<season, team_seasons, purchases>>

(* ---------------- PlayerService.select_players_for_auction ------------- *)
select_players_for_auction(player_ids) ==
    /\ probe' = probe
    /\ player_seasons' =
         [p \in DOMAIN player_seasons |->
            [player_seasons[p] EXCEPT !.is_selected_for_auction = (p \in player_ids)]]
    /\ ret' = Ok("select_players")
    /\ UNCHANGED <<season, team_seasons, purchases>>

(* ------------------------------ Session -------------------------------- *)
(* Whether a query inside a handler sees the handler's own uncommitted     *)
(* writes.  The session factory is not part of the sources at hand; the    *)
(* specification has every tuple of a batch evaluated against the state    *)
autoflush_Off == FALSE

(* as updated by the tuples before it.                                     *)
autoflush == TRUE

(* -------------------- TeamService.assign_icon_players ------------------ *)
TeamWithIconPlayer == [team_id : TeamIds, icon_player_id : PlayerIds]

(* the row after lines 204-208: icon set, headcount reset to 1, then the  *)
(* ledger write at price 0                                                *)
icon_assigned(team_season, icon_player_id) ==
    create_player_purchase(
        [team_season EXCEPT !.icon_player_id = icon_player_id,
                            !.current_players = 1], 0)

RECURSIVE icon_loop(_, _, _, _)
icon_loop(assignments, i, rows, ledger) ==
    IF i > Len(assignments) THEN [err |-> "none", rows |-> rows, ledger |-> ledger]
    ELSE LET a == assignments[i]
             t == a.team_id
             p == a.icon_player_id
         IN  IF t \notin DOMAIN rows
             THEN [err |-> "team_not_found", rows |-> rows, ledger |-> ledger]
             ELSE IF ~(p \in DOMAIN player_seasons
                       /\ player_seasons[p].is_selected_for_auction)
             THEN [err |-> "player_not_found", rows |-> rows, ledger |-> ledger]
             ELSE IF \E t2 \in DOMAIN rows :
                        (IF autoflush THEN rows ELSE team_seasons)[t2].icon_player_id = p
             THEN [err |-> "already_icon", rows |-> rows, ledger |-> ledger]
             ELSE IF ~unique_player_purchase(ledger, t, p)
             THEN [err |-> "integrity", rows |-> rows, ledger |-> ledger]
             ELSE icon_loop(assignments, i + 1,
                            [rows EXCEPT ![t] = icon_assigned(rows[t], p)],
                            ledger \cup {PlayerPurchase(t, p, 0, TRUE)})

assign_icon_players ==
    /\ probe' = probe
    /\ IF season.auction_started
       THEN ret' = Err("assign_icon_players", "already_started") /\ UNCHANGED db
       ELSE \E assignments \in SeqsOver(TeamWithIconPlayer) :
              \E r \in {icon_loop(assignments, 1, team_seasons, purchases)} :
                  IF r.err # "none"
                  THEN ret' = Err("assign_icon_players", r.err) /\ UNCHANGED db
                  ELSE /\ team_seasons' = r.rows
                       /\ purchases' = r.ledger
                       /\ ret' = OkN("assign_icon_players", Len(assignments))
                       /\ UNCHANGED <<season, player_seasons>>

(* ---------------------- AuctionService.start_auction ------------------- *)
icon_player_ids ==
    {team_seasons[t].icon_player_id : t \in DOMAIN team_seasons} \ {NoPlayer}

start_auction_NoStartedCheck(auction_mode) ==
    /\ probe' = probe
    /\ IF ~season.auction_configured
       THEN ret' = Err("start_auction", "not_configured") /\ UNCHANGED db
       ELSE IF DOMAIN team_seasons = {}
       THEN ret' = Err("start_auction", "no_teams") /\ UNCHANGED db
       ELSE /\ season' = [season EXCEPT !.auction_started = TRUE,
                                        !.auction_mode = auction_mode,
                                        !.current_auction_round = 1]
            /\ player_seasons' =
                 [p \in DOMAIN player_seasons |->
                    LET ps == player_seasons[p]
                        st == IF p \in icon_player_ids THEN ICON_PLAYER
                              ELSE ps.auction_status
                    IN  IF ps.is_selected_for_auction /\ st = PENDING
                        THEN [ps EXCEPT !.auction_status = PENDING,
                                        !.auction_round = 1]
                        ELSE [ps EXCEPT !.auction_status = st]]
            /\ ret' = Ok("start_auction")
            /\ UNCHANGED <<team_seasons, purchases>>

start_auction_NoIcon(auction_mode) ==
    /\ probe' = probe
    /\ IF ~season.auction_configured
       THEN ret' = Err("start_auction", "not_configured") /\ UNCHANGED db
       ELSE IF season.auction_started
       THEN ret' = Err("start_auction", "already_started") /\ UNCHANGED db
       ELSE IF DOMAIN team_seasons = {}
       THEN ret' = Err("start_auction", "no_teams") /\ UNCHANGED db
       ELSE /\ season' = [season EXCEPT !.auction_started = TRUE,
                                        !.auction_mode = auction_mode,
                                        !.current_auction_round = 1]
            /\ player_seasons' =
                 [p \in DOMAIN player_seasons |->
                    LET ps == player_seasons[p]
                        st == ps.auction_status
                    IN  IF ps.is_selected_for_auction /\ st = PENDING
                        THEN [ps EXCEPT !.auction_status = PENDING,
                                        !.auction_round = 1]
                        ELSE [ps EXCEPT !.auction_status = st]]
            /\ ret' = Ok("start_auction")
            /\ UNCHANGED <<team_seasons, purchases>>

start_auction(auction_mode) ==
    /\ probe' = probe
    /\ IF ~season.auction_configured
       THEN ret' = Err("start_auction", "not_configured") /\ UNCHANGED db
       ELSE IF season.auction_started
       THEN ret' = Err("start_auction", "already_started") /\ UNCHANGED db
       ELSE IF DOMAIN team_seasons = {}
       THEN ret' = Err("start_auction", "no_teams") /\ UNCHANGED db
       ELSE /\ season' = [season EXCEPT !.auction_started = TRUE,
                                        !.auction_mode = auction_mode,
                                        !.current_auction_round = 1]
            /\ player_seasons' =
                 [p \in DOMAIN player_seasons |->
                    LET ps == player_seasons[p]
                        st == IF p \in icon_player_ids THEN ICON_PLAYER
                              ELSE ps.auction_status
                    IN  IF ps.is_selected_for_auction /\ st = PENDING
                        THEN [ps EXCEPT !.auction_status = PENDING,
                                        !.auction_round = 1]
                        ELSE [ps EXCEPT !.auction_status = st]]
            /\ ret' = Ok("start_auction")
            /\ UNCHANGED <<team_seasons, purchases>>

(* the UNSOLD rows of the season, whatever their round *)
unsold_players_NotPending ==
    {p \in DOMAIN player_seasons : player_seasons[p].auction_status # PENDING}

unsold_players ==
    {p \in DOMAIN player_seasons : player_seasons[p].auction_status = UNSOLD}

(* ---------------- AuctionManager.calculate_max_bid_for_player ---------- *)
RECURSIVE max_bid_loop(_, _, _)
max_bid_loop(rows, i, max_possible_bid) ==
    IF i > Len(rows) THEN max_possible_bid
    ELSE LET validation ==
                 validate_team_budget(rows[i], rows[i].remaining_budget,
                                      season.base_price)
         IN  IF validation.can_bid /\ validation.max_bid_amount > max_possible_bid
             THEN max_bid_loop(rows, i + 1, validation.max_bid_amount)
             ELSE max_bid_loop(rows, i + 1, max_possible_bid)

calculate_max_bid_for_player == max_bid_loop(team_seasons, 1, 0)

(* ----------------- AuctionService.get_next_auction_player -------------- *)
(* the body of a player response or of an action_required response *)
AuctionPlayerResponse(op, player_id, action_required, max_bid_allowed) ==
    [op |-> op, err |-> "none", n |-> player_id,
     action_required |-> action_required, max_bid_allowed |-> max_bid_allowed]

pending_players_AnyRound ==
    {p \in DOMAIN player_seasons : player_seasons[p].auction_status = PENDING}

pending_players ==
    {p \in DOMAIN player_seasons :
        /\ player_seasons[p].auction_status = PENDING
        /\ player_seasons[p].auction_round = season.current_auction_round}

get_next_auction_player ==
    /\ probe' = probe
    /\ UNCHANGED db
    /\ IF ~season.auction_started
       THEN ret' = Err("get_next_auction_player", "not_started")
       ELSE IF pending_players = {}
       THEN IF unsold_players # {}
            THEN ret' = AuctionPlayerResponse("get_next_auction_player", NoPlayer,
                                              "start_next_round", 0)
            ELSE ret' = AuctionPlayerResponse("get_next_auction_player", NoPlayer,
                                              "auction_complete", 0)
       ELSE \E selected_player \in pending_players :
               ret' = AuctionPlayerResponse("get_next_auction_player",
                                            selected_player, "none",
                                            calculate_max_bid_for_player)

(* ---------------- AuctionService.get_manual_auction_player ------------- *)
get_manual_auction_player_Restamps(p) ==
    /\ probe' = probe
    /\ IF ~season.auction_started
       THEN ret' = Err("get_manual_auction_player", "not_started") /\ UNCHANGED db
       ELSE IF ~(p \in DOMAIN player_seasons
                 /\ player_seasons[p].auction_status = PENDING)
       THEN /\ ret' = Err("get_manual_auction_player", "player_not_available")
            /\ UNCHANGED db
       ELSE /\ ret' = AuctionPlayerResponse("get_manual_auction_player", p, "none",
                                            calculate_max_bid_for_player)
            /\ player_seasons' =
                 [player_seasons EXCEPT
                    ![p].auction_round = season.current_auction_round]
            /\ UNCHANGED <<season, team_seasons, purchases>>

get_manual_auction_player(p) ==
    /\ probe' = probe
    /\ UNCHANGED db
    /\ IF ~season.auction_started
       THEN ret' = Err("get_manual_auction_player", "not_started")
       ELSE IF ~(p \in DOMAIN player_seasons
                 /\ player_seasons[p].auction_status = PENDING)
       THEN ret' = Err("get_manual_auction_player", "player_not_available")
       ELSE ret' = AuctionPlayerResponse("get_manual_auction_player", p, "none",
                                         calculate_max_bid_for_player)

(* ---------------------- AuctionService.bid_on_player ------------------- *)
available_for_bidding(p) ==
    p \in DOMAIN player_seasons /\ player_seasons[p].auction_status = PENDING

bid_outcome_NoStartedCheck(p, t, bid_amount, is_sold) ==
    IF ~available_for_bidding(p) THEN "player_not_available"
    ELSE IF ~is_sold THEN "none"
    ELSE IF bid_amount < season.base_price THEN "below_base_price"
    ELSE IF t \notin DOMAIN team_seasons THEN "team_not_found"
    ELSE LET validation ==
                 validate_team_budget(team_seasons[t], bid_amount, season.base_price)
         IN  IF ~validation.can_bid THEN validation.reason
             ELSE IF ~unique_player_purchase(purchases, t, p) THEN "integrity"
             ELSE "none"

bid_outcome_TeamFirst(p, t, bid_amount, is_sold) ==
    IF ~season.auction_started THEN "not_started"
    ELSE IF ~available_for_bidding(p) THEN "player_not_available"
    ELSE IF ~is_sold THEN "none"
    ELSE IF t \notin DOMAIN team_seasons THEN "team_not_found"
    ELSE IF bid_amount < season.base_price THEN "below_base_price"
    ELSE LET validation ==
                 validate_team_budget(team_seasons[t], bid_amount, season.base_price)
         IN  IF ~validation.can_bid THEN validation.reason
             ELSE IF ~unique_player_purchase(purchases, t, p) THEN "integrity"
             ELSE "none"

(* the outcome of bid_on_player's checks, in the order the handler runs them *)
bid_outcome(p, t, bid_amount, is_sold) ==
    IF ~season.auction_started THEN "not_started"
    ELSE IF ~available_for_bidding(p) THEN "player_not_available"
    ELSE IF ~is_sold THEN "none"
    ELSE IF bid_amount < season.base_price THEN "below_base_price"
    ELSE IF t \notin DOMAIN team_seasons THEN "team_not_found"
    ELSE LET validation ==
                 validate_team_budget(team_seasons[t], bid_amount, season.base_price)
         IN  IF ~validation.can_bid THEN validation.reason
             ELSE IF ~unique_player_purchase(purchases, t, p) THEN "integrity"
             ELSE "none"

bid_commit_UnsoldRestamped(p, t, bid_amount, is_sold) ==
    IF is_sold
    THEN /\ team_seasons' =
              [team_seasons EXCEPT
                 ![t] = create_player_purchase(team_seasons[t], bid_amount)]
         /\ purchases' = purchases \cup {PlayerPurchase(t, p, bid_amount, FALSE)}
         /\ player_seasons' = [player_seasons EXCEPT ![p].auction_status = SOLD]
         /\ ret' = OkN("bid_on_player", 1)
         /\ UNCHANGED season
    ELSE /\ player_seasons' =
              [player_seasons EXCEPT ![p].auction_status = UNSOLD,
                                     ![p].auction_round = @ + 1]
         /\ ret' = Ok("bid_on_player")
         /\ UNCHANGED <<season, team_seasons, purchases>>

(* lines 212-215 and 220: the writes of an accepted call *)
bid_commit(p, t, bid_amount, is_sold) ==
    IF is_sold
    THEN /\ team_seasons' =
              [team_seasons EXCEPT
                 ![t] = create_player_purchase(team_seasons[t], bid_amount)]
         /\ purchases' = purchases \cup {PlayerPurchase(t, p, bid_amount, FALSE)}
         /\ player_seasons' = [player_seasons EXCEPT ![p].auction_status = SOLD]
         /\ ret' = OkN("bid_on_player", 1)
         /\ UNCHANGED season
    ELSE /\ player_seasons' = [player_seasons EXCEPT ![p].auction_status = UNSOLD]
         /\ ret' = Ok("bid_on_player")
         /\ UNCHANGED <<season, team_seasons, purchases>>

bid_on_player_StatusFirst(p, t, bid_amount, is_sold) ==
    /\ probe' = probe
    /\ \E e \in {bid_outcome(p, t, bid_amount, is_sold)} :
           IF e = "none" THEN bid_commit(p, t, bid_amount, is_sold)
           ELSE IF e \in {"not_started", "player_not_available"}
           THEN ret' = Err("bid_on_player", e) /\ UNCHANGED db
           ELSE /\ player_seasons' =
                     [player_seasons EXCEPT ![p].auction_status = SOLD]
                /\ ret' = Err("bid_on_player", e)
                /\ UNCHANGED <<season, team_seasons, purchases>>

bid_on_player(p, t, bid_amount, is_sold) ==
    /\ probe' = probe
    /\ \E e \in {bid_outcome(p, t, bid_amount, is_sold)} :
           IF e # "none"
           THEN ret' = Err("bid_on_player", e) /\ UNCHANGED db
           ELSE bid_commit(p, t, bid_amount, is_sold)

(* ------------------- AuctionService.fast_assign_players ---------------- *)
FastAssignment == [player_id : PlayerIds, team_id : TeamIds, price : Prices]

(* batches of one tuple, and of two tuples at positive prices that name   *)
(* one team for two players or one player twice                          *)
FastBatches ==
    {<<a>> : a \in FastAssignment} \cup
    {s \in [1..2 -> FastAssignment] :
        /\ s[1].price > 0 /\ s[2].price > 0
        /\ \/ s[1].team_id = s[2].team_id /\ s[1].player_id # s[2].player_id
           \/ s[1].player_id = s[2].player_id}

FastPairs == {s \in FastBatches : Len(s) = 2}

available_for_assignment(rows, p) ==
    p \in DOMAIN rows /\ rows[p].auction_status \in {PENDING, UNSOLD}

RECURSIVE fast_assign_loop_RejectAborts(_, _, _, _, _, _)
fast_assign_loop_RejectAborts(assignments, i, prows, trows, ledger, assigned_count) ==
    IF i > Len(assignments)
    THEN [err |-> "none", prows |-> prows, trows |-> trows, ledger |-> ledger,
          assigned_count |-> assigned_count]
    ELSE LET a == assignments[i]
         IN  IF ~available_for_assignment(IF autoflush THEN prows ELSE player_seasons,
                                          a.player_id)
             THEN fast_assign_loop_RejectAborts(assignments, i + 1, prows, trows, ledger,
                                   assigned_count)
             ELSE IF a.team_id \notin DOMAIN trows
             THEN fast_assign_loop_RejectAborts(assignments, i + 1, prows, trows, ledger,
                                   assigned_count)
             ELSE IF ~validate_team_budget(trows[a.team_id], a.price,
                                           season.base_price).can_bid
             THEN [err |-> "rejected", prows |-> prows, trows |-> trows,
                   ledger |-> ledger, assigned_count |-> assigned_count]
             ELSE IF ~unique_player_purchase(ledger, a.team_id, a.player_id)
             THEN [err |-> "integrity", prows |-> prows, trows |-> trows,
                   ledger |-> ledger, assigned_count |-> assigned_count]
             ELSE fast_assign_loop_RejectAborts(
                      assignments, i + 1,
                      [prows EXCEPT ![a.player_id].auction_status = SOLD],
                      [trows EXCEPT ![a.team_id] =
                          create_player_purchase(trows[a.team_id], a.price)],
                      ledger \cup
                        {PlayerPurchase(a.team_id, a.player_id, a.price, FALSE)},
                      assigned_count + 1)

(* the loop over the assignments: the rows as updated so far, the count,  *)
(* and whether an insert was refused                                      *)
RECURSIVE fast_assign_loop(_, _, _, _, _, _)
fast_assign_loop(assignments, i, prows, trows, ledger, assigned_count) ==
    IF i > Len(assignments)
    THEN [err |-> "none", prows |-> prows, trows |-> trows, ledger |-> ledger,
          assigned_count |-> assigned_count]
    ELSE LET a == assignments[i]
         IN  IF ~available_for_assignment(IF autoflush THEN prows ELSE player_seasons,
                                          a.player_id)
             THEN fast_assign_loop(assignments, i + 1, prows, trows, ledger,
                                   assigned_count)
             ELSE IF a.team_id \notin DOMAIN trows
             THEN fast_assign_loop(assignments, i + 1, prows, trows, ledger,
                                   assigned_count)
             ELSE IF ~validate_team_budget(trows[a.team_id], a.price,
                                           season.base_price).can_bid
             THEN fast_assign_loop(assignments, i + 1, prows, trows, ledger,
                                   assigned_count)
             ELSE IF ~unique_player_purchase(ledger, a.team_id, a.player_id)
             THEN [err |-> "integrity", prows |-> prows, trows |-> trows,
                   ledger |-> ledger, assigned_count |-> assigned_count]
             ELSE fast_assign_loop(
                      assignments, i + 1,
                      [prows EXCEPT ![a.player_id].auction_status = SOLD],
                      [trows EXCEPT ![a.team_id] =
                          create_player_purchase(trows[a.team_id], a.price)],
                      ledger \cup
                        {PlayerPurchase(a.team_id, a.player_id, a.price, FALSE)},
                      assigned_count + 1)

(* the state a call on one batch leaves and the count it returns, or the  *)
(* state before the call when an insert was refused and nothing commits   *)
fast_assign_result(assignments, prows, trows, ledger) ==
    LET r == fast_assign_loop(assignments, 1, prows, trows, ledger, 0)
    IN  IF r.err = "none" THEN r
        ELSE [err |-> r.err, prows |-> prows, trows |-> trows, ledger |-> ledger,
              assigned_count |-> 0]

fast_assign_players ==
    /\ probe' = probe
    /\ IF ~season.auction_started
       THEN ret' = Err("fast_assign_players", "not_started") /\ UNCHANGED db
       ELSE \E assignments \in FastBatches :
              \E r \in {fast_assign_result(assignments, player_seasons,
                                            team_seasons, purchases)} :
                  IF r.err # "none"
                  THEN ret' = Err("fast_assign_players", r.err) /\ UNCHANGED db
                  ELSE /\ player_seasons' = r.prows
                       /\ team_seasons' = r.trows
                       /\ purchases' = r.ledger
                       /\ ret' = OkN("fast_assign_players", r.assigned_count)
                       /\ UNCHANGED season

(* ---------------- AuctionService.start_next_auction_round -------------- *)
start_next_auction_round_NoStamp ==
    /\ season.current_auction_round < MaxRound
    /\ probe' = probe
    /\ IF ~season.auction_started
       THEN ret' = Err("start_next_round", "not_started") /\ UNCHANGED db
       ELSE LET next_round == season.current_auction_round + 1
                updated_count == Cardinality(unsold_players)
            IN  IF updated_count = 0
                THEN ret' = Err("start_next_round", "no_unsold") /\ UNCHANGED db
                ELSE /\ player_seasons' =
                          [p \in DOMAIN player_seasons |->
                             IF p \in unsold_players
                             THEN [player_seasons[p] EXCEPT
                                     !.auction_status = PENDING]
                             ELSE player_seasons[p]]
                     /\ season' = [season EXCEPT !.current_auction_round = next_round]
                     /\ ret' = OkN("start_next_round", updated_count)
                     /\ UNCHANGED <<team_seasons, purchases>>

start_next_auction_round_AlwaysAdvance ==
    /\ season.current_auction_round < MaxRound
    /\ probe' = probe
    /\ IF ~season.auction_started
       THEN ret' = Err("start_next_round", "not_started") /\ UNCHANGED db
       ELSE LET next_round == season.current_auction_round + 1
                updated_count == Cardinality(unsold_players)
            IN       /\ player_seasons' =
                          [p \in DOMAIN player_seasons |->
                             IF p \in unsold_players
                             THEN [player_seasons[p] EXCEPT
                                     !.auction_status = PENDING,
                                     !.auction_round = next_round]
                             ELSE player_seasons[p]]
                     /\ season' = [season EXCEPT !.current_auction_round = next_round]
                     /\ ret' = OkN("start_next_round", updated_count)
                     /\ UNCHANGED <<team_seasons, purchases>>

start_next_auction_round ==
    /\ season.current_auction_round < MaxRound
    /\ probe' = probe
    /\ IF ~season.auction_started
       THEN ret' = Err("start_next_round", "not_started") /\ UNCHANGED db
       ELSE LET next_round == season.current_auction_round + 1
                updated_count == Cardinality(unsold_players)
            IN  IF updated_count = 0
                THEN ret' = Err("start_next_round", "no_unsold") /\ UNCHANGED db
                ELSE /\ player_seasons' =
                          [p \in DOMAIN player_seasons |->
                             IF p \in unsold_players
                             THEN [player_seasons[p] EXCEPT
                                     !.auction_status = PENDING,
                                     !.auction_round = next_round]
                             ELSE player_seasons[p]]
                     /\ season' = [season EXCEPT !.current_auction_round = next_round]
                     /\ ret' = OkN("start_next_round", updated_count)
                     /\ UNCHANGED <<team_seasons, purchases>>

(* ------------------------------- Next ---------------------------------- *)
Next ==
    \/ configure_auction
    \/ register_teams_for_season
    \/ \E p \in PlayerIds : register_player(p)
    \/ \E player_ids \in Selections : select_players_for_auction(player_ids)
    \/ assign_icon_players
    \/ \E auction_mode \in Modes : start_auction(auction_mode)
    \/ \E p \in PlayerIds, t \in TeamIds, bid_amount \in BidAmounts,
          is_sold \in BOOLEAN : bid_on_player(p, t, bid_amount, is_sold)
    \/ fast_assign_players
    \/ start_next_auction_round
    \/ get_next_auction_player
    \/ \E p \in PlayerIds : get_manual_auction_player(p)

Spec == Init /\ [][Next]_vars

(* --------------------- Budget Validator on its own --------------------- *)
ScenarioTeam == [current_players |-> 2, max_players |-> 5, remaining_budget |-> 1000]

ProbeInputs ==
    [team : [current_players : 0..MaxProbe, max_players : 1..MaxProbe,
             remaining_budget : 0..(2 * MaxProbe)],
     bid_amount : (-1)..(2 * MaxProbe + 1),
     base_price : 1..3]
    \cup
    [team : {ScenarioTeam}, bid_amount : {50, 800, 801, 1001}, base_price : {100}]

InitValidator ==
    /\ InitDb
    /\ probe \in [kind : {"input"}, in : ProbeInputs]

evaluate_team_budget ==
    /\ probe.kind = "input"
    /\ probe' = [kind |-> "output", in |-> probe.in,
                 out |-> validate_team_budget(probe.in.team, probe.in.bid_amount,
                                              probe.in.base_price)]
    /\ UNCHANGED <<db, ret>>

NextValidator == evaluate_team_budget

SpecValidator == InitValidator /\ [][NextValidator]_vars

(* ------------- Two calls on one season, taken step by step ------------- *)
(* Each request runs in a session of its own (get_db): what it wrote is    *)
(* seen by the other call only after db.commit(). A call reads the player  *)
(* row, then the team row, and at its commit the ORM inserts the ledger    *)
(* row and updates the team and player rows to the values it computed      *)
(* from the rows it had read. probe.calls holds the one call each caller   *)
(* makes: not yet begun, in flight, or returned.                           *)
Callers == {1, 2}

(* app/db/session.py: whether a call holds the season to itself *)
exclusive_transaction == FALSE

NoRow ==
    [total_budget |-> 0, remaining_budget |-> 0, max_players |-> 0,
     current_players |-> 0, icon_player_id |-> NoPlayer]

Idle ==
    [pc |-> "idle", op |-> "none", player_id |-> NoPlayer, team_id |-> 0,
     price |-> 0, is_sold |-> FALSE, team_season |-> NoRow]

Returned == [Idle EXCEPT !.pc = "returned"]

may_begin(c) ==
    /\ probe.calls[c].pc = "idle"
    /\ exclusive_transaction =>
          \A d \in Callers : probe.calls[d].pc \in {"idle", "returned"}

in_flight(c, call) == probe' = [probe EXCEPT !.calls[c] = call]

returned(c, r) ==
    /\ probe' = [probe EXCEPT !.calls[c] = Returned]
    /\ ret' = r
    /\ UNCHANGED db

(* the season right after start_auction: both teams registered, both      *)
(* players registered, nothing sold                                       *)
InitConcurrent ==
    /\ \E config_data \in Configs :
         /\ season = [base_price |-> config_data[1],
                      max_players_per_team |-> config_data[2],
                      total_budget_per_team |-> config_data[3],
                      auction_configured |-> TRUE, auction_started |-> TRUE,
                      auction_mode |-> "manual", current_auction_round |-> 1,
                      registration_open |-> TRUE]
         /\ team_seasons =
              [t \in TeamIds |->
                 [total_budget |-> config_data[3],
                  remaining_budget |-> config_data[3],
                  max_players |-> config_data[2],
                  current_players |-> 0, icon_player_id |-> NoPlayer]]
    /\ player_seasons = [p \in PlayerIds |-> NewPlayerSeason]
    /\ purchases = {}
    /\ ret = Ok("start_auction")
    /\ probe = [kind |-> "calls", calls |-> [c \in Callers |-> Idle]]

(* bid_on_player, lines 177-195: the season, the player row, the floor *)
bid_on_player_status_check(c, p, t, bid_amount, is_sold) ==
    /\ may_begin(c)
    /\ LET call == [pc |-> IF is_sold THEN "validate" ELSE "commit",
                    op |-> "bid_on_player", player_id |-> p, team_id |-> t,
                    price |-> bid_amount, is_sold |-> is_sold,
                    team_season |-> NoRow]
       IN  IF ~season.auction_started
           THEN returned(c, Err("bid_on_player", "not_started"))
           ELSE IF ~available_for_bidding(p)
           THEN returned(c, Err("bid_on_player", "player_not_available"))
           ELSE IF is_sold /\ bid_amount < season.base_price
           THEN returned(c, Err("bid_on_player", "below_base_price"))
           ELSE in_flight(c, call) /\ UNCHANGED <<db, ret>>

(* bid_on_player, lines 197-209: the team row and the validator *)
bid_on_player_validate(c) ==
    LET call == probe.calls[c]
    IN  /\ call.pc = "validate"
        /\ call.op = "bid_on_player"
        /\ IF call.team_id \notin DOMAIN team_seasons
           THEN returned(c, Err("bid_on_player", "team_not_found"))
           ELSE \E validation \in
                    {validate_team_budget(team_seasons[call.team_id], call.price,
                                          season.base_price)} :
                   IF ~validation.can_bid
                   THEN returned(c, Err("bid_on_player", validation.reason))
                   ELSE /\ in_flight(c, [call EXCEPT
                                  !.pc = "commit",
                                  !.team_season = team_seasons[call.team_id]])
                        /\ UNCHANGED <<db, ret>>

(* bid_on_player, lines 212-223: ledger row, team row, status, commit *)
bid_on_player_write(c) ==
    LET call == probe.calls[c]
    IN  /\ call.pc = "commit"
        /\ call.op = "bid_on_player"
        /\ IF ~call.is_sold
           THEN /\ player_seasons' =
                     [player_seasons EXCEPT ![call.player_id].auction_status = UNSOLD]
                /\ ret' = Ok("bid_on_player")
                /\ probe' = [probe EXCEPT !.calls[c] = Returned]
                /\ UNCHANGED <<season, team_seasons, purchases>>
           ELSE IF ~unique_player_purchase(purchases, call.team_id, call.player_id)
           THEN returned(c, Err("bid_on_player", "integrity"))
           ELSE /\ team_seasons' =
                     [team_seasons EXCEPT
                        ![call.team_id] =
                            create_player_purchase(call.team_season, call.price)]
                /\ purchases' = purchases \cup
                     {PlayerPurchase(call.team_id, call.player_id, call.price, FALSE)}
                /\ player_seasons' =
                     [player_seasons EXCEPT ![call.player_id].auction_status = SOLD]
                /\ ret' = OkN("bid_on_player", 1)
                /\ probe' = [probe EXCEPT !.calls[c] = Returned]
                /\ UNCHANGED season

(* fast_assign_players on a batch of one tuple, lines 235-248: the player *)
fast_assign_status_check(c, a) ==
    /\ may_begin(c)
    /\ IF ~season.auction_started
       THEN returned(c, Err("fast_assign_players", "not_started"))
       ELSE IF ~available_for_assignment(player_seasons, a.player_id)
       THEN returned(c, OkN("fast_assign_players", 0))
       ELSE /\ in_flight(c, [pc |-> "validate", op |-> "fast_assign_players",
                             player_id |-> a.player_id, team_id |-> a.team_id,
                             price |-> a.price, is_sold |-> TRUE,
                             team_season |-> NoRow])
            /\ UNCHANGED <<db, ret>>

(* fast_assign_players, lines 250-262: the team row and the validator *)
fast_assign_validate(c) ==
    LET call == probe.calls[c]
    IN  /\ call.pc = "validate"
        /\ call.op = "fast_assign_players"
        /\ IF call.team_id \notin DOMAIN team_seasons
           THEN returned(c, OkN("fast_assign_players", 0))
           ELSE IF ~validate_team_budget(team_seasons[call.team_id], call.price,
                                         season.base_price).can_bid
           THEN returned(c, OkN("fast_assign_players", 0))
           ELSE /\ in_flight(c, [call EXCEPT
                          !.pc = "commit",
                          !.team_season = team_seasons[call.team_id]])
                /\ UNCHANGED <<db, ret>>

(* fast_assign_players, lines 264-271: ledger row, team row, status, commit *)
fast_assign_write(c) ==
    LET call == probe.calls[c]
    IN  /\ call.pc = "commit"
        /\ call.op = "fast_assign_players"
        /\ IF ~unique_player_purchase(purchases, call.team_id, call.player_id)
           THEN returned(c, Err("fast_assign_players", "integrity"))
           ELSE /\ team_seasons' =
                     [team_seasons EXCEPT
                        ![call.team_id] =
                            create_player_purchase(call.team_season, call.price)]
                /\ purchases' = purchases \cup
                     {PlayerPurchase(call.team_id, call.player_id, call.price, FALSE)}
                /\ player_seasons' =
                     [player_seasons EXCEPT ![call.player_id].auction_status = SOLD]
                /\ ret' = OkN("fast_assign_players", 1)
                /\ probe' = [probe EXCEPT !.calls[c] = Returned]
                /\ UNCHANGED season

NextConcurrent ==
    \E c \in Callers :
       \/ \E p \in PlayerIds, t \in TeamIds, bid_amount \in BidAmounts,
             is_sold \in BOOLEAN :
               bid_on_player_status_check(c, p, t, bid_amount, is_sold)
       \/ bid_on_player_validate(c)
       \/ bid_on_player_write(c)
       \/ \E a \in FastAssignment : fast_assign_status_check(c, a)
       \/ fast_assign_validate(c)
       \/ fast_assign_write(c)

SpecConcurrent == InitConcurrent /\ [][NextConcurrent]_vars

(* ------------- AuctionManager.calculate_player_role -------------------- *)
WICKETKEEPER_BATSMAN == "wicketkeeper_batsman"
WICKETKEEPER == "wicketkeeper"
ALLROUNDER == "allrounder"
BATSMAN == "batsman"
BOWLER == "bowler"

calculate_player_role_AllrounderFirst(is_wicketkeeper, is_batsman, is_bowler) ==
    IF is_batsman /\ is_bowler THEN ALLROUNDER
    ELSE IF is_wicketkeeper /\ is_batsman THEN WICKETKEEPER_BATSMAN
    ELSE IF is_wicketkeeper THEN WICKETKEEPER
    ELSE IF is_batsman THEN BATSMAN
    ELSE IF is_bowler THEN BOWLER
    ELSE BATSMAN

calculate_player_role(is_wicketkeeper, is_batsman, is_bowler) ==
    IF is_wicketkeeper /\ is_batsman THEN WICKETKEEPER_BATSMAN
    ELSE IF is_wicketkeeper THEN WICKETKEEPER
    ELSE IF is_batsman /\ is_bowler THEN ALLROUNDER
    ELSE IF is_batsman THEN BATSMAN
    ELSE IF is_bowler THEN BOWLER
    ELSE BATSMAN

(* the skills of a PlayerCreate *)
PlayerCreate ==
    [is_wicketkeeper : BOOLEAN, is_batsman : BOOLEAN, is_bowler : BOOLEAN]

(* the Player row register_player writes; probe.players holds the rows *)
PlayerModel(player_data) ==
    [is_wicketkeeper |-> player_data.is_wicketkeeper,
     is_batsman |-> player_data.is_batsman,
     is_bowler |-> player_data.is_bowler,
     player_role |-> calculate_player_role(player_data.is_wicketkeeper,
                                           player_data.is_batsman,
                                           player_data.is_bowler)]

InitRoles == InitDb /\ probe = [kind |-> "players", players |-> <<>>]

(* register_player with the skills of its player_data *)
register_player_data(p, player_data) ==
    /\ p \in DOMAIN player_seasons \/ p = Cardinality(DOMAIN player_seasons) + 1
    /\ IF ~season.registration_open
       THEN /\ ret' = Err("register_player", "registration_closed")
            /\ UNCHANGED <<db, probe>>
       ELSE IF p \in DOMAIN player_seasons
       THEN /\ ret' = Err("register_player", "already_registered")
            /\ UNCHANGED <<db, probe>>
       ELSE /\ probe' = [probe EXCEPT
                           !.players = @ @@ (p :> PlayerModel(player_data))]
            /\ player_seasons' = player_seasons @@ (p :> NewPlayerSeason)
            /\ ret' = Ok("register_player")
            /\ UNCHANGED <<season, team_seasons, purchases>>

NextRoles ==
    \E p \in PlayerIds, player_data \in PlayerCreate :
        register_player_data(p, player_data)

SpecRoles == InitRoles /\ [][NextRoles]_vars

(* ------------------------------ helpers -------------------------------- *)
RECURSIVE SumPrices(_)
SumPrices(rows) ==
    IF rows = {} THEN 0
    ELSE LET r == CHOOSE x \in rows : TRUE
         IN  r.purchase_price + SumPrices(rows \ {r})

Status(p) == player_seasons[p].auction_status

(* ------------------------------- claims -------------------------------- *)

(* C1: in every reachable state every TeamSeason has                       *)
(* 0 <= remaining_budget <= total_budget.                                  *)
CexC1 ==
    \A t \in DOMAIN team_seasons :
       /\ 0 <= team_seasons[t].remaining_budget
       /\ team_seasons[t].remaining_budget <= team_seasons[t].total_budget

(* C2: in every reachable state every TeamSeason has                       *)
(* 0 <= current_players <= max_players.                                    *)
CexC2 ==
    \A t \in DOMAIN team_seasons :
       /\ 0 <= team_seasons[t].current_players
       /\ team_seasons[t].current_players <= team_seasons[t].max_players

(* C3: right after a successful purchase through bid_on_player or          *)
(* fast_assign_players the buying team still holds                         *)
(* remaining_budget >= (max_players - current_players) * base_price.       *)
ThmC3 ==
    [][\A t \in DOMAIN team_seasons :
          ( /\ ret'.op \in {"bid_on_player", "fast_assign_players"}
            /\ ret'.err = "none"
            /\ team_seasons'[t].current_players > team_seasons[t].current_players )
          => team_seasons'[t].remaining_budget >=
               (team_seasons'[t].max_players - team_seasons'[t].current_players)
                 * season'.base_price]_vars

WitC3 ==
    /\ ret = OkN("bid_on_player", 1)
    /\ \E r \in purchases :
          /\ ~r.is_icon_player
          /\ team_seasons[r.team_id].current_players
               < team_seasons[r.team_id].max_players
          /\ team_seasons[r.team_id].remaining_budget =
               (team_seasons[r.team_id].max_players
                  - team_seasons[r.team_id].current_players) * season.base_price

(* C4: the validator admits a candidate exactly when the roster has room,  *)
(* the candidate is within the remaining budget, the cap                   *)
(* remaining_budget - (max_players - current_players - 1) * base_price is  *)
(* at least base_price and the candidate is within the cap; max_bid is the *)
(* cap when admitted or rejected for exceeding the cap, and 0 otherwise.   *)
ThmC4 ==
    probe.kind = "output" =>
       LET team == probe.in.team
           candidate == probe.in.bid_amount
           base_price == probe.in.base_price
           cap == team.remaining_budget
                    - (team.max_players - team.current_players - 1) * base_price
           room == team.current_players < team.max_players
           affordable == candidate <= team.remaining_budget
           admissible == room /\ affordable /\ cap >= base_price /\ candidate <= cap
           over_cap == room /\ affordable /\ cap >= base_price /\ candidate > cap
       IN  /\ probe.out.can_bid = admissible
           /\ probe.out.max_bid_amount = (IF admissible \/ over_cap THEN cap ELSE 0)
           /\ admissible => probe.out.reason = "none"
           /\ over_cap => probe.out.reason = "max_bid"
           /\ ~room => probe.out.reason = "player_limit"
           /\ (room /\ ~affordable) => probe.out.reason = "insufficient_budget"
           /\ (room /\ affordable /\ cap < base_price) => probe.out.reason = "reserve"

WitC4 ==
    /\ probe.kind = "output"
    /\ probe.in = [team |-> ScenarioTeam, bid_amount |-> 801, base_price |-> 100]
    /\ probe.out = [can_bid |-> FALSE, max_bid_amount |-> 800, reason |-> "max_bid"]

(* C5: a bid_on_player call that fails on any precondition leaves the      *)
(* season, every PlayerSeason, every TeamSeason and the ledger unchanged.  *)
ThmC5 ==
    [][(ret'.op = "bid_on_player" /\ ret'.err # "none") => UNCHANGED db]_vars

WitC5 ==
    /\ ret = Err("bid_on_player", "max_bid")
    /\ \E p \in DOMAIN player_seasons : Status(p) = PENDING
    /\ purchases # {}

(* C6: once a PlayerSeason is SOLD or ICON_PLAYER no operation changes its *)
(* auction_status.                                                         *)
ThmC6 ==
    [][\A p \in DOMAIN player_seasons :
          Status(p) \in {SOLD, ICON_PLAYER}
          => player_seasons'[p].auction_status = Status(p)]_vars

WitC6 ==
    /\ ret.op = "start_next_round" /\ ret.err = "none"
    /\ season.current_auction_round = 2
    /\ \E p \in DOMAIN player_seasons :
          /\ Status(p) \in {SOLD, ICON_PLAYER}
          /\ player_seasons[p].auction_round = 1

(* C7 as stated: after the start the only status changes are               *)
(* PENDING -> SOLD and PENDING -> UNSOLD (by bid_on_player or              *)
(* fast_assign_players) and UNSOLD -> PENDING (by start_next_auction_round *)
(* with the round incremented).                                            *)
CexC7 ==
    [][season.auction_started =>
        \A p \in DOMAIN player_seasons :
           player_seasons'[p].auction_status # Status(p) =>
              \/ /\ Status(p) = PENDING
                 /\ player_seasons'[p].auction_status \in {SOLD, UNSOLD}
                 /\ ret'.op \in {"bid_on_player", "fast_assign_players"}
              \/ /\ Status(p) = UNSOLD
                 /\ player_seasons'[p].auction_status = PENDING
                 /\ ret'.op = "start_next_round"
                 /\ player_seasons'[p].auction_round
                      = season.current_auction_round + 1
                 /\ season'.current_auction_round
                      = season.current_auction_round + 1]_vars

(* C7 amended: as above, and also UNSOLD -> SOLD by fast_assign_players.   *)
ThmC7 ==
    [][season.auction_started =>
        \A p \in DOMAIN player_seasons :
           player_seasons'[p].auction_status # Status(p) =>
              \/ /\ Status(p) = PENDING
                 /\ player_seasons'[p].auction_status \in {SOLD, UNSOLD}
                 /\ ret'.op \in {"bid_on_player", "fast_assign_players"}
              \/ /\ Status(p) = UNSOLD
                 /\ player_seasons'[p].auction_status = SOLD
                 /\ ret'.op = "fast_assign_players"
              \/ /\ Status(p) = UNSOLD
                 /\ player_seasons'[p].auction_status = PENDING
                 /\ ret'.op = "start_next_round"
                 /\ player_seasons'[p].auction_round
                      = season.current_auction_round + 1
                 /\ season'.current_auction_round
                      = season.current_auction_round + 1]_vars

WitC7 ==
    /\ ret.op = "fast_assign_players" /\ ret.err = "none" /\ ret.n = 1
    /\ season.current_auction_round = 2
    /\ \E p \in DOMAIN player_seasons :
          /\ Status(p) = SOLD
          /\ player_seasons[p].auction_round = 1
    /\ \E p \in DOMAIN player_seasons :
          /\ Status(p) = PENDING
          /\ player_seasons[p].auction_round = 2

(* C8: for every ledger entry recorded the owning team's remaining_budget  *)
(* drops by the price and its current_players grows by exactly 1, and no   *)
(* other team's budget or headcount changes.                               *)
CexC8 ==
    [][\A t \in DOMAIN team_seasons :
          LET new == {r \in purchases' \ purchases : r.team_id = t}
          IN  /\ team_seasons'[t].remaining_budget =
                   team_seasons[t].remaining_budget - SumPrices(new)
              /\ team_seasons'[t].current_players =
                   team_seasons[t].current_players + Cardinality(new)]_vars

(* C9: every non-icon ledger entry has a price of at least the season's    *)
(* base_price.                                                             *)
CexC9 ==
    \A r \in purchases : ~r.is_icon_player => r.purchase_price >= season.base_price

(* C10: a sold bid on a PENDING player with an amount below base_price is  *)
(* refused by the floor check, whatever the team id and the team's state.  *)
ThmC10 ==
    season.auction_started =>
       \A p \in PlayerIds, t \in TeamIds, bid_amount \in BidAmounts :
          (available_for_bidding(p) /\ bid_amount < season.base_price)
          => bid_outcome(p, t, bid_amount, TRUE) = "below_base_price"

WitC10 ==
    /\ ret = Err("bid_on_player", "below_base_price")
    /\ \E p \in DOMAIN player_seasons : Status(p) = PENDING
    /\ \E t \in TeamIds : t \notin DOMAIN team_seasons
    /\ \E t \in DOMAIN team_seasons :
          team_seasons[t].current_players >= team_seasons[t].max_players

(* C11: bid_on_player with is_sold false on a PENDING player is accepted   *)
(* whatever team id and amount come with it, sets that player's status to  *)
(* UNSOLD and changes nothing else: not its round, no other player, no     *)
(* team's budget or headcount, not the ledger, not the season.             *)
ThmC11 ==
    [][ret' = Ok("bid_on_player") =>
            /\ \A p \in PlayerIds, t \in TeamIds, bid_amount \in BidAmounts :
                  available_for_bidding(p)
                  => bid_outcome(p, t, bid_amount, FALSE) = "none"
            /\ UNCHANGED <<season, team_seasons, purchases>>
            /\ \E p \in DOMAIN player_seasons :
                  /\ Status(p) = PENDING
                  /\ player_seasons' =
                       [player_seasons EXCEPT ![p].auction_status = UNSOLD]]_vars

WitC11 ==
    /\ ret = Ok("bid_on_player")
    /\ purchases # {}
    /\ \E p \in DOMAIN player_seasons :
          Status(p) = UNSOLD /\ player_seasons[p].auction_round = 2

(* C12: fast_assign_players on a batch [a1, a2] leaves the same state and  *)
(* returns the same total count as the call on [a1] followed by the call   *)
(* on [a2].                                                                *)
CexC12 ==
    season.auction_started =>
       \A b \in FastPairs :
          LET whole == fast_assign_result(b, player_seasons, team_seasons,
                                          purchases)
              first == fast_assign_result(<<b[1]>>, player_seasons, team_seasons,
                                          purchases)
              second == fast_assign_result(<<b[2]>>, first.prows, first.trows,
                                           first.ledger)
          IN  /\ whole.prows = second.prows
              /\ whole.trows = second.trows
              /\ whole.ledger = second.ledger
              /\ whole.assigned_count =
                   first.assigned_count + second.assigned_count

(* a tuple the loop passes over: player not PENDING or UNSOLD, team not in *)
(* the season, or price refused by the validator                           *)
skipped_tuple(a, prows, trows) ==
    \/ ~available_for_assignment(prows, a.player_id)
    \/ a.team_id \notin DOMAIN trows
    \/ ~validate_team_budget(trows[a.team_id], a.price, season.base_price).can_bid

(* C13, tuples: a tuple that is passed over changes nothing and does not   *)
(* abort the batch, so the batch ends as the batch without that tuple.     *)
(* A failed call leaves the rows as they were, so the states right after a *)
(* successful call show every content the rows can have.                   *)
SkipC13 ==
    (season.auction_started /\ ret.err = "none") =>
       /\ \A a \in FastAssignment :
             skipped_tuple(a, player_seasons, team_seasons) =>
                fast_assign_result(<<a>>, player_seasons, team_seasons, purchases)
                  = [err |-> "none", prows |-> player_seasons,
                     trows |-> team_seasons, ledger |-> purchases,
                     assigned_count |-> 0]
       /\ \A b \in FastPairs :
             \A first \in {fast_assign_result(<<b[1]>>, player_seasons,
                                               team_seasons, purchases)} :
                /\ skipped_tuple(b[1], player_seasons, team_seasons)
                   => fast_assign_result(b, player_seasons, team_seasons,
                                         purchases)
                        = fast_assign_result(<<b[2]>>, player_seasons,
                                             team_seasons, purchases)
                /\ (first.err = "none"
                    /\ skipped_tuple(b[2], first.prows, first.trows))
                   => fast_assign_result(b, player_seasons, team_seasons,
                                         purchases) = first

(* C13, count: the count a successful call returns is the number of ledger *)
(* entries it added and the number of players it turned SOLD.              *)
CountC13 ==
    (ret'.op = "fast_assign_players" /\ ret'.err = "none") =>
       /\ purchases \subseteq purchases'
       /\ ret'.n = Cardinality(purchases' \ purchases)
       /\ ret'.n = Cardinality({p \in DOMAIN player_seasons :
                                  /\ player_seasons'[p].auction_status = SOLD
                                  /\ Status(p) # SOLD})

(* C13: in fast_assign_players a passed-over tuple changes no state and    *)
(* does not abort the batch, and the returned count equals the number of   *)
(* tuples applied, of ledger entries added and of players that became SOLD.*)
ThmC13 == []SkipC13 /\ [][CountC13]_vars

WitC13 ==
    /\ ret = OkN("fast_assign_players", 1)
    /\ Cardinality(purchases) = 1
    /\ \E b \in FastPairs :
          /\ b[1].player_id # b[2].player_id
          /\ skipped_tuple(b[1], player_seasons, team_seasons)
          /\ fast_assign_result(b, player_seasons, team_seasons,
                                purchases).assigned_count = 1

(* C14: a successful start_next_auction_round moves every UNSOLD player to *)
(* PENDING stamped with the old current round + 1, raises the season's     *)
(* round by exactly 1, leaves no UNSOLD player, and leaves every PENDING,  *)
(* SOLD and ICON_PLAYER player and every team as it was.                   *)
ThmC14 ==
    [][(ret'.op = "start_next_round" /\ ret'.err = "none") =>
          /\ season'.current_auction_round = season.current_auction_round + 1
          /\ DOMAIN player_seasons' = DOMAIN player_seasons
          /\ \A p \in DOMAIN player_seasons :
                IF Status(p) = UNSOLD
                THEN /\ player_seasons'[p].auction_status = PENDING
                     /\ player_seasons'[p].auction_round =
                          season.current_auction_round + 1
                ELSE player_seasons'[p] = player_seasons[p]
          /\ \A p \in DOMAIN player_seasons :
                player_seasons'[p].auction_status # UNSOLD
          /\ ret'.n = Cardinality(unsold_players)
          /\ UNCHANGED <<team_seasons, purchases>>]_vars

WitC14 ==
    /\ ret = OkN("start_next_round", 1)
    /\ \E p \in DOMAIN player_seasons :
          Status(p) = PENDING /\ player_seasons[p].auction_round = 1
    /\ \E p \in DOMAIN player_seasons :
          Status(p) = PENDING /\ player_seasons[p].auction_round = 2

(* C15: start_next_auction_round on a season without an UNSOLD player      *)
(* fails and leaves current_auction_round and every player's status and    *)
(* round unchanged.                                                        *)
ThmC15 ==
    [][(ret'.op = "start_next_round" /\ unsold_players = {}) =>
          /\ ret'.err = (IF season.auction_started THEN "no_unsold"
                         ELSE "not_started")
          /\ UNCHANGED db]_vars

WitC15 ==
    /\ ret = Err("start_next_round", "no_unsold")
    /\ \E p \in DOMAIN player_seasons : Status(p) = PENDING
    /\ \E p \in DOMAIN player_seasons : Status(p) = SOLD

(* C16: auction_started never returns to false, and start_auction on a     *)
(* started season fails with the already-started error and changes nothing *)
(* (not the round, not the mode, no player).                               *)
ThmC16 ==
    [][season.auction_started =>
          /\ season'.auction_started
          /\ ret'.op = "start_auction" =>
                (ret'.err = "already_started" /\ UNCHANGED db)]_vars

WitC16 ==
    /\ ret = Err("start_auction", "already_started")
    /\ season.current_auction_round = 2
    /\ \E p \in DOMAIN player_seasons : Status(p) = ICON_PLAYER

(* C17: start_auction fails with no change unless the season is            *)
(* configured, not started and has a team; on success auction_started is   *)
(* true, the mode is the requested one, the round is 1, every player that  *)
(* is some team's icon_player_id is ICON_PLAYER and every selected PENDING *)
(* player has round 1.                                                     *)
ThmC17 ==
    [][ret'.op = "start_auction" =>
          IF /\ season.auction_configured
             /\ ~season.auction_started
             /\ DOMAIN team_seasons # {}
          THEN /\ ret'.err = "none"
               /\ season'.auction_started
               /\ season'.auction_mode \in Modes
               /\ season'.current_auction_round = 1
               /\ \A p \in DOMAIN player_seasons' :
                     /\ p \in icon_player_ids
                        => player_seasons'[p].auction_status = ICON_PLAYER
                     /\ ( /\ player_seasons'[p].is_selected_for_auction
                          /\ player_seasons'[p].auction_status = PENDING )
                        => player_seasons'[p].auction_round = 1
               /\ UNCHANGED <<team_seasons, purchases>>
          ELSE ret'.err # "none" /\ UNCHANGED db]_vars

WitC17 ==
    /\ ret = Ok("start_auction")
    /\ season.auction_mode = "manual"
    /\ \E p \in DOMAIN player_seasons : Status(p) = ICON_PLAYER
    /\ \E p \in DOMAIN player_seasons :
          Status(p) = PENDING /\ player_seasons[p].is_selected_for_auction

(* C18: once the auction has started the season's base_price,              *)
(* max_players_per_team and total_budget_per_team never change, and        *)
(* configure_auction, register_teams_for_season and assign_icon_players    *)
(* are refused without any change.                                         *)
ThmC18 ==
    [][season.auction_started =>
          /\ season'.base_price = season.base_price
          /\ season'.max_players_per_team = season.max_players_per_team
          /\ season'.total_budget_per_team = season.total_budget_per_team
          /\ ret'.op \in {"configure_auction", "register_teams",
                          "assign_icon_players"}
             => (ret'.err = "already_started" /\ UNCHANGED db)]_vars

WitC18 ==
    /\ ret = Err("configure_auction", "already_started")
    /\ season.base_price = 2
    /\ purchases # {}

(* C19: after the start a player that holds an icon ledger entry is never  *)
(* in the bidding pool: never PENDING, never UNSOLD, never SOLD.           *)
CexC19 ==
    season.auction_started =>
       \A r \in purchases :
          r.is_icon_player => Status(r.player_id) \notin {PENDING, UNSOLD, SOLD}

(* C20: when get_next_auction_player answers auction_complete no player of *)
(* the season is PENDING or UNSOLD, at any round.                          *)
CexC20 ==
    ( /\ ret.op = "get_next_auction_player"
      /\ ret.err = "none"
      /\ ret.action_required = "auction_complete" )
    => \A p \in DOMAIN player_seasons : Status(p) \notin {PENDING, UNSOLD}

(* C21: after the start get_next_auction_player returns a candidate        *)
(* exactly when a PENDING player exists at the current round, and the      *)
(* candidate is one of those; with that pool empty it signals              *)
(* start_next_round exactly when an UNSOLD player exists, and a            *)
(* start_next_auction_round taken in that state succeeds.                  *)
AnswerC21 ==
    (ret.op = "get_next_auction_player" /\ season.auction_started) =>
       LET pool == {p \in DOMAIN player_seasons :
                      /\ Status(p) = PENDING
                      /\ player_seasons[p].auction_round
                           = season.current_auction_round}
           unsold == {p \in DOMAIN player_seasons : Status(p) = UNSOLD}
       IN  /\ ret.err = "none"
           /\ (ret.action_required = "none") = (pool # {})
           /\ ret.action_required = "none" => ret.n \in pool
           /\ pool = {} =>
                 ( (ret.action_required = "start_next_round") = (unsold # {}) )

AdvanceC21 ==
    ( /\ ret.op = "get_next_auction_player"
      /\ ret.err = "none"
      /\ ret.action_required = "start_next_round"
      /\ ret'.op = "start_next_round" )
    => ret'.err = "none"

ThmC21 == []AnswerC21 /\ [][AdvanceC21]_vars

WitC21 ==
    /\ ret.op = "get_next_auction_player"
    /\ ret.err = "none"
    /\ ret.action_required = "start_next_round"
    /\ season.current_auction_round = 1
    /\ \E p \in DOMAIN player_seasons : Status(p) = SOLD

(* the largest cap over the teams that are not full and whose cap reaches  *)
(* base_price, 0 when there is none                                        *)
team_cap(t) ==
    team_seasons[t].remaining_budget
      - (team_seasons[t].max_players - team_seasons[t].current_players - 1)
          * season.base_price

highest_cap ==
    LET caps == {team_cap(t) : t \in {u \in DOMAIN team_seasons :
                    /\ team_seasons[u].current_players < team_seasons[u].max_players
                    /\ team_cap(u) >= season.base_price}}
    IN  IF caps = {} THEN 0 ELSE CHOOSE c \in caps : \A d \in caps : d <= c

(* C22: the max_bid_allowed of a candidate returned by                     *)
(* get_next_auction_player or get_manual_auction_player is the largest     *)
(* amount some team could bid and have admitted: the highest cap over the  *)
(* teams that are not full and whose cap is at least base_price, else 0.   *)
CexC22 ==
    ( /\ ret.op \in {"get_next_auction_player", "get_manual_auction_player"}
      /\ ret.err = "none"
      /\ ret.action_required = "none" )
    => ret.max_bid_allowed = highest_cap

(* C23: get_next_auction_player and get_manual_auction_player, with the    *)
(* validator evaluations they make, leave the season, every player, every  *)
(* team and the ledger unchanged, whether they return a candidate, a       *)
(* signal or an error.                                                     *)
ThmC23 ==
    [][ret'.op \in {"get_next_auction_player", "get_manual_auction_player"}
       => UNCHANGED db]_vars

WitC23 ==
    /\ ret.op = "get_manual_auction_player"
    /\ ret.err = "none"
    /\ ret.n \in DOMAIN player_seasons
    /\ player_seasons[ret.n].auction_round < season.current_auction_round
    /\ purchases # {}

(* ----------------------------------------------------------------------- *)
(* C24: in every reachable state the ledger holds at most one entry per    *)
(* (team_season, player) pair; the ledger only grows, and only by entries  *)
(* for pairs that had none; a call refused for a duplicate pair leaves the *)
(* ledger, the team budgets and the headcounts as they were.               *)
same_pair(q, r) == q.team_id = r.team_id /\ q.player_id = r.player_id

UniqueC24 == \A q \in purchases : \A r \in purchases : same_pair(q, r) => q = r

AppendC24 ==
    /\ purchases \subseteq purchases'
    /\ \A r \in purchases' \ purchases : \A q \in purchases : ~same_pair(q, r)
    /\ ret'.err = "integrity" => UNCHANGED db

ThmC24 == []UniqueC24 /\ [][AppendC24]_vars

WitC24 ==
    /\ ret = Err("bid_on_player", "integrity")
    /\ season.auction_started
    /\ \E q \in purchases : \E t \in DOMAIN team_seasons :
          /\ q.team_id = t
          /\ q.player_id \in DOMAIN player_seasons
          /\ Status(q.player_id) = PENDING
          /\ team_seasons[t].remaining_budget > 0

(* C25: in every reachable state no player holds ledger entries with two   *)
(* different teams of the season.                                          *)
CexC25 ==
    \A q \in purchases : \A r \in purchases :
        q.player_id = r.player_id => q.team_id = r.team_id

(* C26: when two bid_on_player calls, or a bid_on_player and a             *)
(* fast_assign_players call, run with their steps interleaved, no          *)
(* reachable state has a player sold twice, and no team holds purchases    *)
(* the validator would not admit one after the other: the budget left is   *)
(* never below 0 or below the reserve for the open slots, and the          *)
(* headcount is never above max_players, by the team row and by the ledger.*)
sold_once(p) ==
    Cardinality({r \in purchases : r.player_id = p /\ ~r.is_icon_player}) <= 1

admitted_in_turn(t) ==
    LET ts == team_seasons[t]
        rows == {r \in purchases : r.team_id = t}
    IN  /\ ts.remaining_budget >= 0
        /\ ts.current_players <= ts.max_players
        /\ ts.remaining_budget >=
              (ts.max_players - ts.current_players) * season.base_price
        /\ Cardinality(rows) <= ts.max_players
        /\ ts.total_budget - SumPrices(rows) >=
              (ts.max_players - Cardinality(rows)) * season.base_price

CexC26 ==
    /\ \A p \in DOMAIN player_seasons : sold_once(p)
    /\ \A t \in DOMAIN team_seasons : admitted_in_turn(t)

(* C27: in every state after start_auction a player is SOLD if and only    *)
(* if exactly one non-icon ledger entry exists for that player, and each   *)
(* team's budget is debited by exactly the prices of its ledger entries:   *)
(* no debit or entry without the SOLD status, no SOLD status without its   *)
(* entry and debit.                                                        *)
bought(p) == {r \in purchases : r.player_id = p /\ ~r.is_icon_player}

ThmC27 ==
    season.auction_started =>
       /\ \A p \in DOMAIN player_seasons :
             /\ Status(p) = SOLD <=> bought(p) # {}
             /\ Cardinality(bought(p)) <= 1
       /\ \A r \in purchases :
             ~r.is_icon_player => r.player_id \in DOMAIN player_seasons
       /\ \A t \in DOMAIN team_seasons :
             team_seasons[t].total_budget - team_seasons[t].remaining_budget =
                SumPrices({r \in purchases : r.team_id = t})

WitC27 ==
    /\ season.auction_started
    /\ ret = OkN("bid_on_player", 1)
    /\ \E p \in DOMAIN player_seasons, q \in DOMAIN player_seasons :
          /\ Status(p) = SOLD /\ Cardinality(bought(p)) = 1
          /\ Status(q) = UNSOLD /\ bought(q) = {}
    /\ \E t \in DOMAIN team_seasons :
          team_seasons[t].remaining_budget < team_seasons[t].total_budget

(* C28: after the auction has started, no step of any sequence of          *)
(* operations increases a team's remaining_budget or decreases its         *)
(* current_players.                                                        *)
CexC28 ==
    [][season.auction_started =>
          \A t \in DOMAIN team_seasons :
             /\ t \in DOMAIN team_seasons'
             /\ team_seasons'[t].remaining_budget <= team_seasons[t].remaining_budget
             /\ team_seasons'[t].current_players >= team_seasons[t].current_players]_vars

(* C29: current_auction_round is 1 right after start_auction and from      *)
(* then on changes only by +1, on a successful start_next_auction_round;   *)
(* every player's auction_round lies between 1 and current_auction_round   *)
(* and never decreases.                                                    *)
RoundsC29 ==
    /\ season.current_auction_round >= 1
    /\ \A p \in DOMAIN player_seasons :
          /\ player_seasons[p].auction_round >= 1
          /\ player_seasons[p].auction_round <= season.current_auction_round

StepC29 ==
    /\ ret' = Ok("start_auction") => season'.current_auction_round = 1
    /\ season.auction_started =>
          \/ season'.current_auction_round = season.current_auction_round
          \/ /\ season'.current_auction_round = season.current_auction_round + 1
             /\ ret'.op = "start_next_round"
             /\ ret'.err = "none"
    /\ \A p \in DOMAIN player_seasons :
          /\ p \in DOMAIN player_seasons'
          /\ player_seasons'[p].auction_round >= player_seasons[p].auction_round

ThmC29 == []RoundsC29 /\ [][StepC29]_vars

WitC29 ==
    /\ ret.op = "start_next_round"
    /\ ret.err = "none"
    /\ season.current_auction_round = 2
    /\ \E p \in DOMAIN player_seasons, q \in DOMAIN player_seasons :
          /\ player_seasons[p].auction_round = 2
          /\ player_seasons[q].auction_round = 1

(* C30: before start_auction has succeeded, each of get_next_auction_player,*)
(* get_manual_auction_player, bid_on_player, fast_assign_players and       *)
(* start_next_auction_round fails with the auction-not-started error and   *)
(* changes nothing, so before the start no player is SOLD or UNSOLD and    *)
(* every team's budget is untouched.                                       *)
AuctionOps ==
    {"get_next_auction_player", "get_manual_auction_player", "bid_on_player",
     "fast_assign_players", "start_next_round"}

RefusedC30 ==
    (~season.auction_started /\ ret'.op \in AuctionOps) =>
        /\ ret'.err = "not_started"
        /\ UNCHANGED db

UntouchedC30 ==
    ~season.auction_started =>
        /\ \A p \in DOMAIN player_seasons : Status(p) \notin {SOLD, UNSOLD}
        /\ \A t \in DOMAIN team_seasons :
              team_seasons[t].remaining_budget = team_seasons[t].total_budget
        /\ \A r \in purchases : r.is_icon_player

ThmC30 == []UntouchedC30 /\ [][RefusedC30]_vars

WitC30 ==
    /\ ~season.auction_started
    /\ season.auction_configured
    /\ ret = Err("bid_on_player", "not_started")
    /\ DOMAIN team_seasons = TeamIds
    /\ DOMAIN player_seasons = PlayerIds
    /\ \A p \in PlayerIds : Status(p) = PENDING

(* ----------------------------------------------------------------------- *)
(* C31: for all eight combinations of (wicketkeeper, batsman, bowler) the  *)
(* role of a registered player is: wicketkeeper and batsman ->             *)
(* WICKETKEEPER_BATSMAN (bowler or not); wicketkeeper without batsman ->   *)
(* WICKETKEEPER (bowler or not); batsman and bowler -> ALLROUNDER;         *)
(* batsman alone -> BATSMAN; bowler alone -> BOWLER; none -> BATSMAN.      *)
RoleTable ==
    {<<TRUE, TRUE, TRUE, WICKETKEEPER_BATSMAN>>,
     <<TRUE, TRUE, FALSE, WICKETKEEPER_BATSMAN>>,
     <<TRUE, FALSE, TRUE, WICKETKEEPER>>,
     <<TRUE, FALSE, FALSE, WICKETKEEPER>>,
     <<FALSE, TRUE, TRUE, ALLROUNDER>>,
     <<FALSE, TRUE, FALSE, BATSMAN>>,
     <<FALSE, FALSE, TRUE, BOWLER>>,
     <<FALSE, FALSE, FALSE, BATSMAN>>}

ThmC31 ==
    probe.kind = "players" =>
       \A p \in DOMAIN probe.players :
          LET row == probe.players[p]
          IN  <<row.is_wicketkeeper, row.is_batsman, row.is_bowler,
                row.player_role>> \in RoleTable

WitC31 ==
    /\ probe.kind = "players"
    /\ \E p \in DOMAIN probe.players, q \in DOMAIN probe.players :
          /\ probe.players[p].is_wicketkeeper /\ probe.players[p].is_batsman
          /\ probe.players[p].is_bowler
          /\ probe.players[p].player_role = WICKETKEEPER_BATSMAN
          /\ probe.players[q].is_wicketkeeper /\ ~probe.players[q].is_batsman
          /\ probe.players[q].is_bowler
          /\ probe.players[q].player_role = WICKETKEEPER

(* C32: after start_auction has succeeded no operation sets a player's     *)
(* status to ICON_PLAYER or OWNER, so the set of ICON_PLAYER rows stays    *)
(* as it was at the start; and a player becomes SOLD only from PENDING or  *)
(* UNSOLD, by a bid_on_player or fast_assign_players call that writes a    *)
(* non-icon ledger entry for that player in the same step.                 *)
TerminalC32 ==
    season.auction_started =>
       /\ \A p \in DOMAIN player_seasons' :
             IF p \in DOMAIN player_seasons
             THEN /\ (player_seasons'[p].auction_status = ICON_PLAYER) =
                        (Status(p) = ICON_PLAYER)
                  /\ player_seasons'[p].auction_status = OWNER => Status(p) = OWNER
             ELSE player_seasons'[p].auction_status \notin {ICON_PLAYER, OWNER}
       /\ \A p \in DOMAIN player_seasons :
             (player_seasons'[p].auction_status = SOLD /\ Status(p) # SOLD) =>
                /\ Status(p) \in {PENDING, UNSOLD}
                /\ ret'.op \in {"bid_on_player", "fast_assign_players"}
                /\ \E r \in purchases' \ purchases :
                      r.player_id = p /\ ~r.is_icon_player

ThmC32 == [][TerminalC32]_vars

WitC32 ==
    /\ season.auction_started
    /\ ret = OkN("fast_assign_players", 1)
    /\ \E p \in DOMAIN player_seasons, q \in DOMAIN player_seasons :
          /\ Status(p) = ICON_PLAYER
          /\ Status(q) = SOLD
          /\ \E r \in purchases : r.player_id = q /\ ~r.is_icon_player

(* C33: in every reachable state, for every team, total_budget minus       *)
(* remaining_budget equals the sum of the prices of that team's ledger     *)
(* entries, icon entries counting 0.                                       *)
ledger_of(t) == {r \in purchases : r.team_id = t}

ThmC33 ==
    /\ \A r \in purchases : r.team_id \in DOMAIN team_seasons
    /\ \A r \in purchases : r.is_icon_player => r.purchase_price = 0
    /\ \A t \in DOMAIN team_seasons :
          team_seasons[t].remaining_budget + SumPrices(ledger_of(t)) =
             team_seasons[t].total_budget

WitC33 ==
    \E t \in DOMAIN team_seasons :
       /\ \E r \in ledger_of(t) : r.is_icon_player
       /\ \E r \in ledger_of(t) : ~r.is_icon_player /\ r.purchase_price > 0
       /\ team_seasons[t].remaining_budget < team_seasons[t].total_budget
       /\ season.total_budget_per_team # team_seasons[t].total_budget

(* C34: in every reachable state, for every team, current_players equals  *)
(* the number of that team's ledger entries, the icon entry included; a    *)
(* team with one icon player and no other purchase has current_players 1.  *)
CexC34 ==
    \A t \in DOMAIN team_seasons :
       team_seasons[t].current_players =
          Cardinality({r \in purchases : r.team_id = t})

(* C35: after start_auction every PENDING player has auction_round equal   *)
(* to the season's current_auction_round, whatever the order of            *)
(* bid_on_player, fast_assign_players and start_next_auction_round calls.  *)
CexC35 ==
    season.auction_started =>
       \A p \in DOMAIN player_seasons :
          Status(p) = PENDING =>
             player_seasons[p].auction_round = season.current_auction_round

(* C36: a player that is registered but not selected for the auction is    *)
(* never returned by get_next_auction_player or get_manual_auction_player  *)
(* and never becomes SOLD or UNSOLD through bid_on_player or               *)
(* fast_assign_players.                                                    *)
CexC36 ==
    [][/\ (/\ ret'.op \in {"get_next_auction_player", "get_manual_auction_player"}
           /\ ret'.err = "none"
           /\ ret'.action_required = "none") =>
              player_seasons'[ret'.n].is_selected_for_auction
       /\ ret'.op \in {"bid_on_player", "fast_assign_players"} =>
             \A p \in DOMAIN player_seasons :
                (/\ player_seasons'[p].auction_status \in {SOLD, UNSOLD}
                 /\ player_seasons'[p].auction_status # Status(p)) =>
                    player_seasons[p].is_selected_for_auction]_vars

(* C37: a team that enters the started auction with remaining_budget at    *)
(* least (max_players - current_players) * base_price keeps that reserve   *)
(* in every later state, and whenever it has an open slot the validator    *)
(* admits a bid of exactly base_price for it.                              *)
reserve_held(row) ==
    row.remaining_budget >= (row.max_players - row.current_players) * season.base_price

FloorC37 ==
    season.auction_started =>
       \A t \in DOMAIN team_seasons :
          (/\ reserve_held(team_seasons[t])
           /\ team_seasons[t].current_players < team_seasons[t].max_players) =>
              validate_team_budget(team_seasons[t], season.base_price,
                                   season.base_price).can_bid

KeptC37 ==
    season.auction_started =>
       /\ season'.base_price = season.base_price
       /\ \A t \in DOMAIN team_seasons :
             reserve_held(team_seasons[t]) =>
                /\ t \in DOMAIN team_seasons'
                /\ team_seasons'[t].remaining_budget >=
                      (team_seasons'[t].max_players - team_seasons'[t].current_players)
                         * season.base_price

ThmC37 == []FloorC37 /\ [][KeptC37]_vars

WitC37 ==
    /\ season.auction_started
    /\ ret = OkN("bid_on_player", 1)
    /\ \E t \in DOMAIN team_seasons :
          /\ team_seasons[t].current_players < team_seasons[t].max_players
          /\ \E r \in purchases : r.team_id = t /\ ~r.is_icon_player
          /\ team_seasons[t].remaining_budget =
                (team_seasons[t].max_players - team_seasons[t].current_players)
                   * season.base_price

(* C38: at the moment start_auction succeeds every team of the season has  *)
(* max_players equal to the season's max_players_per_team and total_budget *)
(* equal to the season's total_budget_per_team, whatever the order of the  *)
(* configure_auction and register_teams_for_season calls before it.        *)
CexC38 ==
    ret = Ok("start_auction") =>
       \A t \in DOMAIN team_seasons :
          /\ team_seasons[t].max_players = season.max_players_per_team
          /\ team_seasons[t].total_budget = season.total_budget_per_team

(* C39: a fast_assign_players batch that names one player in two tuples,   *)
(* for the same team or for two teams, each admissible on its own, applies *)
(* exactly one of them: the call returns count 1, the player gets one      *)
(* ledger entry and one team is debited; and no successful call adds two   *)
(* ledger entries for one player.                                          *)
TwiceC39 ==
    (season.auction_started /\ ret.err = "none") =>
       \A b \in FastPairs :
          b[1].player_id = b[2].player_id =>
             \A first \in {fast_assign_result(<<b[1]>>, player_seasons,
                                               team_seasons, purchases)},
                second \in {fast_assign_result(<<b[2]>>, player_seasons,
                                                team_seasons, purchases)},
                both \in {fast_assign_result(b, player_seasons, team_seasons,
                                              purchases)} :
                (/\ first.err = "none" /\ first.assigned_count = 1
                 /\ second.err = "none" /\ second.assigned_count = 1) =>
                    /\ both.err = "none"
                    /\ both.assigned_count = 1
                    /\ Cardinality({r \in both.ledger \ purchases :
                                       r.player_id = b[1].player_id}) = 1
                    /\ Cardinality({t \in DOMAIN team_seasons :
                                       both.trows[t] # team_seasons[t]}) = 1

OnceC39 ==
    (ret'.op = "fast_assign_players" /\ ret'.err = "none") =>
       \A p \in PlayerIds :
          Cardinality({r \in purchases' \ purchases : r.player_id = p}) <= 1

ThmC39 == []TwiceC39 /\ [][OnceC39]_vars

WitC39 ==
    /\ season.auction_started
    /\ ret = OkN("fast_assign_players", 1)
    /\ \E p \in DOMAIN player_seasons, t \in DOMAIN team_seasons,
          u \in DOMAIN team_seasons :
          /\ t # u
          /\ Status(p) = SOLD
          /\ {r.team_id : r \in {x \in purchases : x.player_id = p}} = {t}
          /\ team_seasons[t].remaining_budget < team_seasons[t].total_budget
          /\ team_seasons[u].remaining_budget = team_seasons[u].total_budget
          /\ validate_team_budget(team_seasons[u], 1, season.base_price).can_bid

====
